---- MODULE Spec2Model ----
(***************************************************************************)
(* A model of fs_scanner: compare() of fs_compare.py (manifest loading and *)
(* the classification loop) and scan() of fs_scanner.py (the walk loop and *)
(* the checksum strategies).                                               *)
(***************************************************************************)
EXTENDS Integers, Sequences, FiniteSets, TLC

\* ------------------------------------------------------------------ bounds
\* Longest manifest file (in lines) that compare() is fed.
MaxLines == 2

\* Most files the walk of scan() finds.
MaxFiles == 3

\* Longest manifest file (in lines) of the runs on reordered files.
MaxFileLen == 2

\* ------------------------------------------------------- values of records
Paths == {"a", "b"}

\* A JSON null, as written by no_checksum.
None == <<"None">>

\* A JSON integer (size_checksum, simple_checksum) and a JSON string
\* (strong_checksum's hex digest); Python's == never equates the two kinds.
IntSum(n) == <<"int", n>>
HexDigest(c) == <<"md5", c>>

Checksums == {None, IntSum(1)}
Timestamps == {1, 2}
CheckStates == {"OK", "EACCES"}

\* An optional field: <<>> when the key is absent, <<v>> when it is v.
Opt(S) == {<<>>} \cup {<<v>> : v \in S}

Obj(p, c, t, s) ==
  [f \in {g \in {"path"} : p # <<>>} \cup {g \in {"checksum"} : c # <<>>}
         \cup {g \in {"last_modified"} : t # <<>>} \cup {g \in {"check_state"} : s # <<>>}
     |-> CASE f = "path" -> p[1]
           [] f = "checksum" -> c[1]
           [] f = "last_modified" -> t[1]
           [] f = "check_state" -> s[1]]

\* What one line of a manifest file can be: blank after strip(), text that
\* json.loads rejects, JSON that is no object, or a JSON object.
Lines ==
  {[kind |-> "blank", obj |-> Obj(<<>>, <<>>, <<>>, <<>>)],
   [kind |-> "garbage", obj |-> Obj(<<>>, <<>>, <<>>, <<>>)],
   [kind |-> "scalar", obj |-> Obj(<<>>, <<>>, <<>>, <<>>)]}
  \cup {[kind |-> "object", obj |-> Obj(p, c, t, s)] :
          p \in Opt(Paths), c \in Opt(Checksums), t \in Opt(Timestamps),
          s \in {<<v>> : v \in CheckStates}}

\* ------------------------------------------------------- dict operations
EmptyDict == [k \in {} |-> None]

\* d[k] = v
Put(d, k, v) == [x \in DOMAIN d \cup {k} |-> IF x = k THEN v ELSE d[x]]

\* The keys of a dict in iteration order after d[k] = v: a new key goes last,
\* an overwritten key keeps its place.
PutKey(keys, k) == IF \E i \in 1..Len(keys) : keys[i] = k THEN keys ELSE Append(keys, k)

\* ------------------------------------------------------ manifest loading
\* The exception one line raises in the loading loop, or "none".
LoadRaises(line) ==
  CASE line.kind = "blank" -> "none"
    [] line.kind = "garbage" -> "JSONDecodeError"
    [] line.kind = "scalar" -> "TypeError"
    [] OTHER -> IF "path" \in DOMAIN line.obj THEN "none" ELSE "KeyError"

\* A variant of lines 60-66 in which the dict is created inside the loop.
LoadThisRecord_ResetsModel(model, line) ==
  IF line.kind = "blank" THEN model ELSE Put(EmptyDict, line.obj["path"], line.obj)

\* lines 62-66: this_model[record["path"]] = record, for a line that raises
\* nothing.
LoadThisRecord(model, line) ==
  IF line.kind = "blank" THEN model ELSE Put(model, line.obj["path"], line.obj)

\* lines 82-86: other_model[record["path"]] = record, for a line that raises
\* nothing, and what it does to the order of the keys.
LoadOtherRecord(model, line) ==
  IF line.kind = "blank" THEN model ELSE Put(model, line.obj["path"], line.obj)

LoadOtherKeys(keys, line) ==
  IF line.kind = "blank" THEN keys ELSE PutKey(keys, line.obj["path"])

\* ------------------------------------------------- the comparison loop body
NoBuckets ==
  [missing_model |-> EmptyDict, equal_model |-> EmptyDict, differing_model |-> EmptyDict,
   differing_this_is_newer_model |-> EmptyDict,
   differing_other_is_newer_model |-> EmptyDict,
   differing_both_same_age_model |-> EmptyDict]

\* line 102: not other_path in this_model.keys()
IsMissing(other_path, this_m) == other_path \notin DOMAIN this_m

\* A variant of line 111 that compares the whole records.
ChecksumDiffers_WholeRecord(other_record, this_record) ==
  other_record # this_record

\* line 111: other_record["checksum"] != this_record["checksum"]
ChecksumDiffers(other_record, this_record) ==
  other_record["checksum"] # this_record["checksum"]

\* A variant of lines 120-130 whose first comparison is not strict.
Refine_NonStrict(other_last_modified, this_last_modified) ==
  IF other_last_modified >= this_last_modified THEN "other_is_newer"
  ELSE IF other_last_modified < this_last_modified THEN "this_is_newer"
  ELSE "both_same_age"

\* lines 120-130: which refinement bucket the two timestamps select
Refine(other_last_modified, this_last_modified) ==
  IF other_last_modified > this_last_modified THEN "other_is_newer"
  ELSE IF other_last_modified < this_last_modified THEN "this_is_newer"
  ELSE "both_same_age"

\* A variant of lines 115-130 without the final else branch.
DifferingBranch_NoSameAge(b, other_path, other_record, this_record) ==
  LET this_path == this_record["path"]
      d == [b EXCEPT !.differing_model = Put(@, other_path, other_record)]
      r == Refine(other_record["last_modified"], this_record["last_modified"])
  IN CASE r = "other_is_newer" ->
            [d EXCEPT !.differing_other_is_newer_model = Put(@, other_path, other_record)]
       [] r = "this_is_newer" ->
            [d EXCEPT !.differing_this_is_newer_model = Put(@, this_path, this_record)]
       [] OTHER -> d

\* A variant of lines 115-133 in which the equal branch is not an else branch
\* and runs after the differing one.
DifferingBranch_FallsThrough(b, other_path, other_record, this_record) ==
  LET this_path == this_record["path"]
      d == [b EXCEPT !.differing_model = Put(@, other_path, other_record),
                     !.equal_model = Put(@, other_path, other_record)]
      r == Refine(other_record["last_modified"], this_record["last_modified"])
  IN CASE r = "other_is_newer" ->
            [d EXCEPT !.differing_other_is_newer_model = Put(@, other_path, other_record)]
       [] r = "this_is_newer" ->
            [d EXCEPT !.differing_this_is_newer_model = Put(@, this_path, this_record)]
       [] OTHER ->
            [d EXCEPT !.differing_both_same_age_model = Put(@, this_path, this_record)]

\* lines 115-130: the differing branch, both timestamps present
DifferingBranch(b, other_path, other_record, this_record) ==
  LET this_path == this_record["path"]
      d == [b EXCEPT !.differing_model = Put(@, other_path, other_record)]
      r == Refine(other_record["last_modified"], this_record["last_modified"])
  IN CASE r = "other_is_newer" ->
            [d EXCEPT !.differing_other_is_newer_model = Put(@, other_path, other_record)]
       [] r = "this_is_newer" ->
            [d EXCEPT !.differing_this_is_newer_model = Put(@, this_path, this_record)]
       [] OTHER ->
            [d EXCEPT !.differing_both_same_age_model = Put(@, this_path, this_record)]

\* lines 132-133: the equal branch
EqualBranch(b, other_path, other_record) ==
  [b EXCEPT !.equal_model = Put(@, other_path, other_record)]

\* A variant of lines 103-104 that files the record in the wrong dict.
MissingBranch_WrongBucket(b, other_path, other_record) ==
  [b EXCEPT !.equal_model = Put(@, other_path, other_record)]

\* lines 103-104: the missing branch
MissingBranch(b, other_path, other_record) ==
  [b EXCEPT !.missing_model = Put(@, other_path, other_record)]

\* lines 101-133: one iteration of the loop over other_model.items(). The
\* result is the buckets after it and the exception it ends in, if any; a
\* KeyError at line 118 comes after differing_model was assigned at line 115.
Iteration(b, this_m, other_path, other_record) ==
  IF IsMissing(other_path, this_m)
  THEN [b |-> MissingBranch(b, other_path, other_record), exc |-> "none"]
  ELSE LET this_record == this_m[other_path] IN
       IF "checksum" \notin DOMAIN other_record \/ "checksum" \notin DOMAIN this_record
       THEN [b |-> b, exc |-> "KeyError"]
       ELSE IF ChecksumDiffers(other_record, this_record)
       THEN IF "last_modified" \notin DOMAIN other_record
               \/ "last_modified" \notin DOMAIN this_record
            THEN [b |-> [b EXCEPT !.differing_model = Put(@, other_path, other_record)],
                  exc |-> "KeyError"]
            ELSE [b |-> DifferingBranch(b, other_path, other_record, this_record),
                  exc |-> "none"]
       ELSE [b |-> EqualBranch(b, other_path, other_record), exc |-> "none"]

\* lines 156-164: the two assertions
Assertion1(b, other_m) ==
  Cardinality(DOMAIN b.missing_model) + Cardinality(DOMAIN b.equal_model)
    + Cardinality(DOMAIN b.differing_model) = Cardinality(DOMAIN other_m)

Assertion2(b, other_m) ==
  Cardinality(DOMAIN b.missing_model) + Cardinality(DOMAIN b.equal_model)
    + Cardinality(DOMAIN b.differing_this_is_newer_model)
    + Cardinality(DOMAIN b.differing_other_is_newer_model)
    + Cardinality(DOMAIN b.differing_both_same_age_model) = Cardinality(DOMAIN other_m)

\* ---------------------------------------------------------------- state
VARIABLES
  pc,            \* where compare() is
  exc,           \* the exception compare() ended in, or "none"
  nread,         \* lines read so far from the file being loaded
  this_model, other_model,
  other_keys,    \* other_model's keys in iteration (insertion) order
  idx,           \* items of other_model.items() already iterated
  buckets        \* the six *_model dicts of the comparison step

cvars == <<pc, exc, nread, this_model, other_model, other_keys, idx, buckets>>

CompareInit ==
  /\ pc = "open_this"
  /\ exc = "none"
  /\ nread = 0
  /\ this_model = EmptyDict
  /\ other_model = EmptyDict
  /\ other_keys = <<>>
  /\ idx = 0
  /\ buckets = NoBuckets

\* lines 52-60
OpenThis ==
  /\ pc = "open_this"
  /\ \E exists \in BOOLEAN :
       pc' = IF exists THEN "load_this" ELSE "exit"
  /\ UNCHANGED <<exc, nread, this_model, other_model, other_keys, idx, buckets>>

\* lines 61-66, one line of the file
LoadThisLine ==
  /\ pc = "load_this"
  /\ nread < MaxLines
  /\ \E line \in Lines :
       IF LoadRaises(line) # "none"
       THEN /\ pc' = "raised"
            /\ exc' = LoadRaises(line)
            /\ UNCHANGED <<nread, this_model>>
       ELSE /\ this_model' = LoadThisRecord(this_model, line)
            /\ nread' = nread + 1
            /\ UNCHANGED <<pc, exc>>
  /\ UNCHANGED <<other_model, other_keys, idx, buckets>>

\* lines 67-80: end of this file, then the other path is checked
OpenOther ==
  /\ pc = "load_this"
  /\ \E exists \in BOOLEAN :
       pc' = IF exists THEN "load_other" ELSE "exit"
  /\ nread' = 0
  /\ UNCHANGED <<exc, this_model, other_model, other_keys, idx, buckets>>

\* lines 81-86, one line of the file
LoadOtherLine ==
  /\ pc = "load_other"
  /\ nread < MaxLines
  /\ \E line \in Lines :
       IF LoadRaises(line) # "none"
       THEN /\ pc' = "raised"
            /\ exc' = LoadRaises(line)
            /\ UNCHANGED <<nread, other_model, other_keys>>
       ELSE /\ other_model' = LoadOtherRecord(other_model, line)
            /\ other_keys' = LoadOtherKeys(other_keys, line)
            /\ nread' = nread + 1
            /\ UNCHANGED <<pc, exc>>
  /\ UNCHANGED <<this_model, idx, buckets>>

\* lines 87-97: end of the other file, the buckets are created
StartComparison ==
  /\ pc = "load_other"
  /\ pc' = "compare"
  /\ nread' = 0
  /\ idx' = 0
  /\ buckets' = NoBuckets
  /\ UNCHANGED <<exc, this_model, other_model, other_keys>>

\* lines 101-133, one iteration
CompareIteration ==
  /\ pc = "compare"
  /\ idx < Len(other_keys)
  /\ LET other_path == other_keys[idx + 1]
         r == Iteration(buckets, this_model, other_path, other_model[other_path])
     IN /\ buckets' = r.b
        /\ exc' = r.exc
        /\ pc' = IF r.exc = "none" THEN "compare" ELSE "raised"
        /\ idx' = IF r.exc = "none" THEN idx + 1 ELSE idx
  /\ UNCHANGED <<nread, this_model, other_model, other_keys>>

\* lines 135-164: the loop is over, the assertions run
CheckAssertions ==
  /\ pc = "compare"
  /\ idx = Len(other_keys)
  /\ IF Assertion1(buckets, other_model) /\ Assertion2(buckets, other_model)
     THEN pc' = "done" /\ UNCHANGED exc
     ELSE pc' = "raised" /\ exc' = "AssertionError"
  /\ UNCHANGED <<nread, this_model, other_model, other_keys, idx, buckets>>

\* ------------------------------------------------ properties of compare()
BucketNames ==
  {"missing_model", "equal_model", "differing_model", "differing_this_is_newer_model",
   "differing_other_is_newer_model", "differing_both_same_age_model"}

\* The five buckets of the partition (differing_model is their superset).
PartitionNames == BucketNames \ {"differing_model"}

\* The comparison loop has run to its end.
LoopOver == (pc = "compare" /\ idx = Len(other_keys)) \/ pc = "done"

\* The paths of other_model the loop has iterated so far.
Iterated == {other_keys[i] : i \in 1..idx}

\* C1: whenever both manifests loaded and the comparison loop ran to its end,
\* missing + equal + differing = |other| and missing + equal + the three
\* refinement buckets = |other|, and no assertion of compare() ever fails.
C1_PartitionComplete ==
  /\ exc # "AssertionError"
  /\ LoopOver => Assertion1(buckets, other_model) /\ Assertion2(buckets, other_model)

C1_Witness ==
  /\ pc = "done"
  /\ Cardinality(DOMAIN other_model) = 2
  /\ DOMAIN buckets.missing_model # {}
  /\ DOMAIN buckets.differing_both_same_age_model # {}

\* C2: in every state of compare(), hence after every iteration of the loop,
\* no path is a key of two of the buckets missing, equal, differing_other_is_newer,
\* differing_this_is_newer, differing_both_same_age.
C2_Disjoint ==
  \A m \in PartitionNames : \A n \in PartitionNames \ {m} :
    DOMAIN buckets[m] \cap DOMAIN buckets[n] = {}

C2_Witness ==
  /\ pc = "compare"
  /\ idx = 1
  /\ Len(other_keys) = 2
  /\ DOMAIN buckets.differing_this_is_newer_model # {}

\* C3: every iterated path that is in both manifests with unequal checksums is
\* in differing_other_is_newer iff other's last_modified is strictly greater,
\* in differing_this_is_newer iff it is strictly smaller, and in
\* differing_both_same_age iff the two are equal.
C3_StrictTimestamps ==
  pc \in {"compare", "done"} =>
    \A p \in Iterated \cap DOMAIN this_model :
      other_model[p]["checksum"] # this_model[p]["checksum"] =>
        LET o == other_model[p]["last_modified"]
            t == this_model[p]["last_modified"]
        IN /\ p \in DOMAIN buckets.differing_other_is_newer_model <=> o > t
           /\ p \in DOMAIN buckets.differing_this_is_newer_model <=> o < t
           /\ p \in DOMAIN buckets.differing_both_same_age_model <=> o = t

C3_Witness ==
  /\ pc = "done"
  /\ \E p \in DOMAIN other_model \cap DOMAIN this_model :
       /\ other_model[p]["checksum"] # this_model[p]["checksum"]
       /\ other_model[p]["last_modified"] = this_model[p]["last_modified"]
       /\ p \in DOMAIN buckets.differing_both_same_age_model

\* C4: once the loop is over, the keys of missing are exactly the keys of
\* other that are not keys of this, each mapped to other's record; and in every
\* state a path that is a key of this alone is a key of no bucket.
C4_MissingExact ==
  /\ LoopOver =>
       /\ DOMAIN buckets.missing_model = DOMAIN other_model \ DOMAIN this_model
       /\ \A p \in DOMAIN buckets.missing_model : buckets.missing_model[p] = other_model[p]
  /\ \A p \in DOMAIN this_model \ DOMAIN other_model :
       \A m \in BucketNames : p \notin DOMAIN buckets[m]

C4_Witness ==
  /\ pc = "done"
  /\ DOMAIN buckets.missing_model # {}
  /\ DOMAIN this_model \ DOMAIN other_model # {}

\* C5: every iterated path that is in both manifests with equal checksums (two
\* nulls included) is in equal and in none of the differing buckets, whatever
\* the timestamps; so when every checksum is null, nothing is differing.
C5_EqualChecksums ==
  pc \in {"compare", "done"} =>
    /\ \A p \in Iterated \cap DOMAIN this_model :
         other_model[p]["checksum"] = this_model[p]["checksum"] =>
           /\ p \in DOMAIN buckets.equal_model
           /\ \A m \in BucketNames \ {"equal_model", "missing_model"} :
                p \notin DOMAIN buckets[m]
    /\ ( /\ \A p \in DOMAIN this_model : "checksum" \in DOMAIN this_model[p]
                                         /\ this_model[p]["checksum"] = None
         /\ \A p \in DOMAIN other_model : "checksum" \in DOMAIN other_model[p]
                                          /\ other_model[p]["checksum"] = None )
       => \A m \in BucketNames \ {"equal_model", "missing_model"} : DOMAIN buckets[m] = {}

C5_Witness ==
  /\ pc = "done"
  /\ \E p \in DOMAIN other_model \cap DOMAIN this_model :
       /\ other_model[p]["checksum"] = None
       /\ this_model[p]["checksum"] = None
       /\ "last_modified" \in DOMAIN other_model[p] \cap DOMAIN this_model[p]
       /\ other_model[p]["last_modified"] # this_model[p]["last_modified"]
       /\ p \in DOMAIN buckets.equal_model

\* C7: loading fails before the comparison starts whenever a non-blank line is
\* no object with both a path and a checksum: no record without a checksum is
\* ever in a manifest handed to the comparison loop.
C7_LoadRejectsMissingChecksum ==
  pc \in {"compare", "done"} =>
    /\ \A p \in DOMAIN this_model : {"path", "checksum"} \subseteq DOMAIN this_model[p]
    /\ \A p \in DOMAIN other_model : {"path", "checksum"} \subseteq DOMAIN other_model[p]


\* ================================================================ scan()
\* The names the --checksum option accepts (click.Choice, line 108).
ChecksumChoice == {"none", "time", "simple", "strong"}

\* The keys of checksum_mapper (lines 77-82).
checksum_mapper == {"none", "size", "simple", "strong"}

chunk_size == 1024

\* File contents, as bytes.
Contents == {<<1>>, <<2>>, <<1, 2>>}

\* zlib.adler32(data, value): the running sums a (low 16 bits) and b (high 16
\* bits), each modulo 65521, continued over the bytes of data.
RECURSIVE adler32(_, _)
adler32(data, value) ==
  IF data = <<>> THEN value
  ELSE LET a == ((value % 65536) + Head(data)) % 65521
           b == ((value \div 65536) + a) % 65521
       IN adler32(Tail(data), b * 65536 + a)

\* lines 58-63: the loop over chunks of chunk_size bytes
RECURSIVE AdlerChunks(_, _)
AdlerChunks(content, sum) ==
  IF content = <<>> THEN sum
  ELSE LET n == IF Len(content) < chunk_size THEN Len(content) ELSE chunk_size
       IN AdlerChunks(SubSeq(content, n + 1, Len(content)),
                      adler32(SubSeq(content, 1, n), sum))

no_checksum(file) == None
size_checksum(file) == IntSum(Len(file.content))
simple_checksum(file) == IntSum(AdlerChunks(file.content, adler32(<<>>, 1)))
strong_checksum(file) == HexDigest(file.content)

\* Whether the checksum function of that name raises OSError on the file:
\* no_checksum touches nothing, size_checksum stats, the other two open.
ChecksumRaises(name, file) == name # "none" /\ ~file.read_ok

\* checksum_mapper[name](file_path), for a name that is a key
ApplyChecksum(name, file) ==
  CASE name = "none" -> no_checksum(file)
    [] name = "size" -> size_checksum(file)
    [] name = "simple" -> simple_checksum(file)
    [] name = "strong" -> strong_checksum(file)

\* str(e) of the OSError of a failed stat and of a failed open/read
StatErrorText == "ENOENT"
ReadErrorText == "EACCES"

\* What the walk can find under one name: whether stat succeeds, whether it
\* is a regular file, its mtime, whether it can be opened, and its bytes.
Files ==
  [stat_ok : BOOLEAN, is_file : BOOLEAN, mtime : Timestamps, read_ok : BOOLEAN,
   content : Contents]

VARIABLES
  scan_pc,        \* where scan() is
  scan_exc,       \* the exception scan() ended in, or "none"
  checksum,       \* the --checksum option
  file_count, error_count, content_size,
  file_size, last_modified, file_checksum,  \* locals: <<>> while unbound, <<v>> once v
  check_state,
  output_stream,  \* the records written so far
  stream_closed

svars ==
  <<scan_pc, scan_exc, checksum, file_count, error_count, content_size, file_size,
    last_modified, file_checksum, check_state, output_stream, stream_closed>>

ScanInit ==
  /\ scan_pc = "start"
  /\ scan_exc = "none"
  /\ checksum \in ChecksumChoice
  /\ file_count = 0
  /\ error_count = 0
  /\ content_size = 0
  /\ file_size = <<>>
  /\ last_modified = <<>>
  /\ file_checksum = <<>>
  /\ check_state = "OK"
  /\ output_stream = <<>>
  /\ stream_closed = FALSE

\* lines 123-140
ScanStart ==
  /\ scan_pc = "start"
  /\ \E exists \in BOOLEAN :
       scan_pc' = IF exists THEN "walk" ELSE "exit"
  /\ UNCHANGED <<scan_exc, checksum, file_count, error_count, content_size, file_size,
                 last_modified, file_checksum, check_state, output_stream, stream_closed>>

\* lines 162-170 after the try statement: the record is built from the locals
\* as they are now and written; an unbound local raises UnboundLocalError.
WriteRecord(size, mtime, sum, state) ==
  IF size = <<>> \/ mtime = <<>> \/ sum = <<>>
  THEN /\ scan_pc' = "raised"
       /\ scan_exc' = "UnboundLocalError"
       /\ UNCHANGED output_stream
  ELSE /\ output_stream' =
            Append(output_stream,
                   [path |-> file_count + 1, size |-> size[1], last_modified |-> mtime[1],
                    checksum |-> sum[1], check_state |-> state])
       /\ UNCHANGED <<scan_pc, scan_exc>>

\* lines 142-170: the loop body for the next file the walk yields
ScanFile ==
  /\ scan_pc = "walk"
  /\ file_count < MaxFiles
  /\ \E file \in Files :
       /\ file_count' = file_count + 1
       /\ IF ~file.stat_ok
          THEN \* line 148 raises OSError
               /\ check_state' = StatErrorText
               /\ error_count' = error_count + 1
               /\ UNCHANGED <<content_size, file_size, last_modified, file_checksum>>
               /\ WriteRecord(file_size, last_modified, file_checksum, StatErrorText)
          ELSE IF ~file.is_file
          THEN \* lines 149-151: continue
               /\ check_state' = "OK"
               /\ UNCHANGED <<scan_pc, scan_exc, error_count, content_size, file_size,
                              last_modified, file_checksum, output_stream>>
          ELSE /\ file_size' = <<Len(file.content)>>
               /\ last_modified' = <<file.mtime>>
               /\ content_size' = content_size + Len(file.content)
               /\ IF checksum \notin checksum_mapper
                  THEN \* line 156 raises KeyError, which nothing catches
                       /\ check_state' = "OK"
                       /\ scan_pc' = "raised"
                       /\ scan_exc' = "KeyError"
                       /\ UNCHANGED <<error_count, file_checksum, output_stream>>
                  ELSE IF ChecksumRaises(checksum, file)
                  THEN \* line 156 raises OSError
                       /\ check_state' = ReadErrorText
                       /\ error_count' = error_count + 1
                       /\ UNCHANGED file_checksum
                       /\ WriteRecord(file_size', last_modified', file_checksum,
                                      ReadErrorText)
                  ELSE /\ check_state' = "OK"
                       /\ file_checksum' = <<ApplyChecksum(checksum, file)>>
                       /\ UNCHANGED error_count
                       /\ WriteRecord(file_size', last_modified', file_checksum', "OK")
  /\ UNCHANGED <<checksum, stream_closed>>

\* lines 172-180: the walk is over, the stream is closed
ScanClose ==
  /\ scan_pc = "walk"
  /\ scan_pc' = "done"
  /\ stream_closed' = TRUE
  /\ UNCHANGED <<scan_exc, checksum, file_count, error_count, content_size, file_size,
                 last_modified, file_checksum, check_state, output_stream>>

\* scan() is not running.
ScanIdle ==
  /\ scan_pc = "idle"
  /\ scan_exc = "none"
  /\ checksum = "none"
  /\ file_count = 0
  /\ error_count = 0
  /\ content_size = 0
  /\ file_size = <<>>
  /\ last_modified = <<>>
  /\ file_checksum = <<>>
  /\ check_state = "OK"
  /\ output_stream = <<>>
  /\ stream_closed = FALSE

\* compare() is not running.
CompareIdle ==
  /\ pc = "idle"
  /\ exc = "none"
  /\ nread = 0
  /\ this_model = EmptyDict
  /\ other_model = EmptyDict
  /\ other_keys = <<>>
  /\ idx = 0
  /\ buckets = NoBuckets

\* ---------------------------------------------------- properties of scan()
\* The records written so far whose check_state is an error text.
ErrorRecords == {i \in 1..Len(output_stream) : output_stream[i].check_state # "OK"}

\* C8: no OS error of stat or of the checksum function aborts the scan, the
\* first file's included: each failing file gets a record with the error text
\* and adds exactly one to error_count, and the loop goes on.
C8_OSErrorDoesNotAbort ==
  /\ scan_exc # "UnboundLocalError"
  /\ scan_pc \in {"walk", "done"} => error_count = Cardinality(ErrorRecords)

\* C9: the record written for a file whose stat or checksum failed never
\* carries a fingerprint that was computed for an earlier file, i.e. the
\* (non-null) value the local file_checksum held when the iteration began.
C9_NoStaleChecksum ==
  [][(Len(output_stream') > Len(output_stream) /\ check_state' # "OK"
        /\ file_checksum # <<>> /\ file_checksum # <<None>>)
       => output_stream'[Len(output_stream')].checksum # file_checksum[1]]_svars

\* C10: every name the --checksum option accepts is a key of checksum_mapper:
\* whatever accepted name was chosen, the lookup at line 156 succeeds and no
\* scan ends in an unhandled KeyError.
C10_AcceptedNameIsMapped ==
  checksum \in ChecksumChoice => scan_exc # "KeyError"

\* ======================================= compare() on whole manifest files
\* lines 60-66 on a whole file: the dict and the exception the loop ends in,
\* if any.
RECURSIVE LoadThisFile(_, _)
LoadThisFile(lines, model) ==
  IF lines = <<>> THEN [model |-> model, exc |-> "none"]
  ELSE IF LoadRaises(Head(lines)) # "none"
  THEN [model |-> model, exc |-> LoadRaises(Head(lines))]
  ELSE LoadThisFile(Tail(lines), LoadThisRecord(model, Head(lines)))

\* lines 80-86 on a whole file: the dict, its keys in insertion order and the
\* exception the loop ends in, if any.
RECURSIVE LoadOtherFile(_, _, _)
LoadOtherFile(lines, model, keys) ==
  IF lines = <<>> THEN [model |-> model, keys |-> keys, exc |-> "none"]
  ELSE IF LoadRaises(Head(lines)) # "none"
  THEN [model |-> model, keys |-> keys, exc |-> LoadRaises(Head(lines))]
  ELSE LoadOtherFile(Tail(lines), LoadOtherRecord(model, Head(lines)),
                     LoadOtherKeys(keys, Head(lines)))

\* lines 101-133 over all of other_model.items()
RECURSIVE Loop(_, _, _, _)
Loop(keys, this_m, other_m, b) ==
  IF keys = <<>> THEN [b |-> b, exc |-> "none"]
  ELSE LET r == Iteration(b, this_m, Head(keys), other_m[Head(keys)])
       IN IF r.exc # "none" THEN r ELSE Loop(Tail(keys), this_m, other_m, r.b)

\* The buckets compare() ends with on two existing files, when it ends at all.
NoResult == [ok |-> FALSE, buckets |-> NoBuckets]

Compare(this_lines, other_lines) ==
  LET t == LoadThisFile(this_lines, EmptyDict) IN
  IF t.exc # "none" THEN NoResult
  ELSE LET o == LoadOtherFile(other_lines, EmptyDict, <<>>) IN
       IF o.exc # "none" THEN NoResult
       ELSE LET r == Loop(o.keys, t.model, o.model, NoBuckets) IN
            IF r.exc # "none" \/ ~Assertion1(r.b, o.model) \/ ~Assertion2(r.b, o.model)
            THEN NoResult
            ELSE [ok |-> TRUE, buckets |-> r.b]

\* The lines of the files of these runs.
OrderLines ==
  {[kind |-> "object", obj |-> Obj(<<"a">>, <<None>>, <<1>>, <<"OK">>)],
   [kind |-> "object", obj |-> Obj(<<"a">>, <<IntSum(1)>>, <<2>>, <<"OK">>)],
   [kind |-> "object", obj |-> Obj(<<"b">>, <<None>>, <<1>>, <<"OK">>)],
   [kind |-> "object", obj |-> Obj(<<"b">>, <<IntSum(1)>>, <<1>>, <<"OK">>)]}

ManifestFiles == UNION {[1..n -> OrderLines] : n \in 0..MaxFileLen}

\* Every reordering of the lines of a file.
Reorderings(file) ==
  LET n == Len(file)
      perms == {f \in [1..n -> 1..n] : \A i, j \in 1..n : f[i] = f[j] => i = j}
  IN {[i \in 1..n |-> file[f[i]]] : f \in perms}

VARIABLES
  this_file, other_file,            \* two manifest files
  this_reordered, other_reordered,  \* the same lines in another order
  result,                           \* the buckets of compare() on the files
  result_reordered,                 \* and on the reordered files
  runs                              \* which of the two runs have ended

ovars ==
  <<this_file, other_file, this_reordered, other_reordered, result, result_reordered,
    runs>>

OrderInit ==
  /\ this_file \in ManifestFiles
  /\ other_file \in ManifestFiles
  /\ this_reordered \in Reorderings(this_file)
  /\ other_reordered \in Reorderings(other_file)
  /\ result = NoResult
  /\ result_reordered = NoResult
  /\ runs = {}

\* compare --this this_file --other other_file
RunOriginal ==
  /\ "original" \notin runs
  /\ result' = Compare(this_file, other_file)
  /\ runs' = runs \cup {"original"}
  /\ UNCHANGED <<this_file, other_file, this_reordered, other_reordered, result_reordered>>

\* compare --this this_reordered --other other_reordered
RunReordered ==
  /\ "reordered" \notin runs
  /\ result_reordered' = Compare(this_reordered, other_reordered)
  /\ runs' = runs \cup {"reordered"}
  /\ UNCHANGED <<this_file, other_file, this_reordered, other_reordered, result>>

\* No manifest file is being compared as a whole.
OrderIdle ==
  /\ this_file = <<>>
  /\ other_file = <<>>
  /\ this_reordered = <<>>
  /\ other_reordered = <<>>
  /\ result = NoResult
  /\ result_reordered = NoResult
  /\ runs = {}

\* ------------------------------------- properties of the reordered runs
\* The same path is on two lines of the file with two different records.
ConflictingDuplicates(file) ==
  \E i, j \in 1..Len(file) :
    /\ file[i].kind = "object" /\ file[j].kind = "object"
    /\ "path" \in DOMAIN file[i].obj \cap DOMAIN file[j].obj
    /\ file[i].obj["path"] = file[j].obj["path"]
    /\ file[i].obj # file[j].obj

\* C6 as stated: the diff of two files and the diff of any reordering of
\* their lines end with the same six buckets, also when a path occurs on more
\* than one line.
C6_OrderIndependent ==
  runs = {"original", "reordered"} => result = result_reordered

\* C6 as amended: the two diffs end with the same six buckets whenever, in
\* each file, all lines that name the same path carry the same record.
C6_OrderIndependentWithoutConflicts ==
  (runs = {"original", "reordered"}
     /\ ~ConflictingDuplicates(this_file) /\ ~ConflictingDuplicates(other_file))
    => result = result_reordered

C6_Witness ==
  /\ runs = {"original", "reordered"}
  /\ ~ConflictingDuplicates(this_file) /\ ~ConflictingDuplicates(other_file)
  /\ this_reordered # this_file
  /\ other_reordered # other_file
  /\ result.ok
  /\ DOMAIN result.buckets.equal_model # {}
  /\ DOMAIN result.buckets.differing_both_same_age_model # {}

\* ---------------------------------------------------------- specifications
vars == <<cvars, svars, ovars>>

\* compare() runs, its input read line by line.
Init == CompareInit /\ ScanIdle /\ OrderIdle

Next ==
  \/ OpenThis /\ UNCHANGED <<svars, ovars>>
  \/ LoadThisLine /\ UNCHANGED <<svars, ovars>>
  \/ OpenOther /\ UNCHANGED <<svars, ovars>>
  \/ LoadOtherLine /\ UNCHANGED <<svars, ovars>>
  \/ StartComparison /\ UNCHANGED <<svars, ovars>>
  \/ CompareIteration /\ UNCHANGED <<svars, ovars>>
  \/ CheckAssertions /\ UNCHANGED <<svars, ovars>>

Spec == Init /\ [][Next]_vars

\* scan() runs.
InitScan == ScanInit /\ CompareIdle /\ OrderIdle

NextScan ==
  \/ ScanStart /\ UNCHANGED <<cvars, ovars>>
  \/ ScanFile /\ UNCHANGED <<cvars, ovars>>
  \/ ScanClose /\ UNCHANGED <<cvars, ovars>>

SpecScan == InitScan /\ [][NextScan]_vars

\* compare() runs on two manifest files and on a reordering of their lines.
InitOrder == OrderInit /\ CompareIdle /\ ScanIdle

NextOrder ==
  \/ RunOriginal /\ UNCHANGED <<cvars, svars>>
  \/ RunReordered /\ UNCHANGED <<cvars, svars>>

SpecOrder == InitOrder /\ [][NextOrder]_vars

====
